---- MODULE Spec2Model ----
(***************************************************************************)
(* State-machine model of the e-learning backend (src/main.py): the        *)
(* startup seeding, POST /auth/register, POST /auth/login and GET /courses *)
(* over a document store holding the "user" and "course" collections.      *)
(*                                                                         *)
(* Request handlers are plain `def` routes, so the server runs them on a   *)
(* thread pool: each client of Clients has one request in flight at most,  *)
(* and the handlers of different clients interleave at their store calls.  *)
(* register makes two store calls (find_one, then create_document) and is  *)
(* therefore two steps; login and list_courses make one store call each.   *)
(*                                                                         *)
(* Any store call may raise.  startup_event and list_courses catch the     *)
(* exception; register and login have no try, so there the exception       *)
(* leaves the handler and the framework answers 500 (Unhandled).  A        *)
(* collection is the sequence of its documents in insertion order, and     *)
(* find_one returns the first match in that order.  Seeding runs           *)
(* synchronously before any request is served; the process may be started  *)
(* again on the same store.                                                *)
(***************************************************************************)
EXTENDS Integers, Sequences, FiniteSets, TLC

\* ------------------------------------------------------------------ bounds
NumClients == 2
MaxStartups == 2

Clients == 1..NumClients

\* Request inputs (already validated by the RegisterRequest / LoginRequest models).
Names == {"Alice"}
Emails == {"admin@elearning.com", "alice@x.com"}
Passwords == {"admin123", "pw1"}

VARIABLES
    db,        \* TRUE: the store handle exists; FALSE: `db is None`
    users,     \* db["user"]: the documents in insertion order
    courses,   \* db["course"]: the documents in insertion order
    phase,     \* "starting" (startup_event pending), "serving", "crashed"
    seeded,    \* outcome of each startup_event run so far: "ok", "failed", "nodb"
    pc,        \* per client: "idle" or "reg_insert" (register between its two store calls)
    req,       \* per client: the request being handled
    resp       \* the last response this process sent: operation, request, result

vars == <<db, users, courses, phase, seeded, pc, req, resp>>

\* ------------------------------------------------------------- utilities

\* hashlib.sha256(...).hexdigest(): a deterministic, collision-free digest,
\* kept symbolic.
hash_password(password) == "sha256(" \o password \o ")"

\* The ObjectId the store gives the next inserted document.
NewId(us, cs) == Len(us) + Len(cs) + 1

\* str(ObjectId)
str(oid) == ToString(oid)

\* collection.find_one({"email": email}): the position of the first matching
\* document, 0 for None.
find_one(coll, email) ==
    IF \E i \in 1..Len(coll) : coll[i].email = email
    THEN CHOOSE i \in 1..Len(coll) :
            /\ coll[i].email = email
            /\ \A j \in 1..(i - 1) : coll[j].email # email
    ELSE 0

\* collection.insert_one(doc): the store adds the document under a fresh _id.
insert_one(coll, doc, oid) == Append(coll, [_id |-> oid] @@ doc)

\* collection.count_documents({})
count_documents(coll) == Len(coll)

RECURSIVE insert_many(_, _, _)
\* collection.insert_many(docs): every document, in order, under fresh ids.
insert_many(coll, docs, oid) ==
    IF docs = <<>> THEN coll
    ELSE insert_many(insert_one(coll, Head(docs), oid), Tail(docs), oid + 1)

\* database.create_document(collection_name, data): inserts the model's
\* fields as one document of the collection.
create_document(coll, data, oid) == insert_one(coll, data, oid)

\* ---------------------------------------------------------------- seeding

defaults == <<
    [name |-> "Admin", email |-> "admin@elearning.com",
     password_hash |-> hash_password("admin123"), role |-> "admin", is_active |-> TRUE],
    [name |-> "Faculty", email |-> "faculty@elearning.com",
     password_hash |-> hash_password("faculty123"), role |-> "faculty", is_active |-> TRUE] >>

samples == <<
    [title |-> "Web Development", category |-> "Courses", level |-> "Beginner"],
    [title |-> "Cyber Security", category |-> "Courses", level |-> "Intermediate"],
    [title |-> "Python", category |-> "Programming Languages", level |-> "Beginner"],
    [title |-> "C++", category |-> "Programming Languages", level |-> "Intermediate"] >>

\* The store call of a seeding run that raises, if any: <<operation, loop index>>.
NoFail == <<"none", 0>>
FailPoints ==
    {NoFail, <<"count_documents", 0>>, <<"insert_many", 0>>}
    \cup {<<op, k>> : op \in {"find_one", "insert_one"}, k \in 1..Len(defaults)}

RECURSIVE ensure_loop(_, _, _, _)
\* for u in defaults[k..]: if not users.find_one(...): users.insert_one(u)
ensure_loop(k, us, cs, fail) ==
    IF k > Len(defaults) THEN [users |-> us, raised |-> FALSE]
    ELSE IF fail = <<"find_one", k>> THEN [users |-> us, raised |-> TRUE]
    ELSE IF find_one(us, defaults[k].email) # 0 THEN ensure_loop(k + 1, us, cs, fail)
    ELSE IF fail = <<"insert_one", k>> THEN [users |-> us, raised |-> TRUE]
    ELSE ensure_loop(k + 1, insert_one(us, defaults[k], NewId(us, cs)), cs, fail)

ensure_default_users(d, us, cs, fail) ==
    IF ~d THEN [users |-> us, raised |-> FALSE]
    ELSE ensure_loop(1, us, cs, fail)

seed_samples_always(d, us, cs, fail) ==
    IF ~d THEN [courses |-> cs, raised |-> FALSE]
    ELSE IF fail = <<"count_documents", 0>> THEN [courses |-> cs, raised |-> TRUE]
    ELSE IF fail = <<"insert_many", 0>> THEN [courses |-> cs, raised |-> TRUE]
    ELSE [courses |-> insert_many(cs, samples, NewId(us, cs)), raised |-> FALSE]
seed_samples(d, us, cs, fail) ==
    IF ~d THEN [courses |-> cs, raised |-> FALSE]
    ELSE IF fail = <<"count_documents", 0>> THEN [courses |-> cs, raised |-> TRUE]
    ELSE IF count_documents(cs) # 0 THEN [courses |-> cs, raised |-> FALSE]
    ELSE IF fail = <<"insert_many", 0>> THEN [courses |-> cs, raised |-> TRUE]
    ELSE [courses |-> insert_many(cs, samples, NewId(us, cs)), raised |-> FALSE]

\* The body of startup_event's try block: seed_samples runs only when
\* ensure_default_users returned.
seeding(d, us, cs, fail) ==
    LET e == ensure_default_users(d, us, cs, fail)
        s == seed_samples(d, e.users, cs, fail)
    IN  IF e.raised THEN [users |-> e.users, courses |-> cs, raised |-> TRUE]
        ELSE [users |-> e.users, courses |-> s.courses, raised |-> s.raised]

\* try: ... except Exception: pass -- what the process does after the event.
startup_no_try(raised) == IF raised THEN "crashed" ELSE "serving"
startup_outcome(raised) == "serving"

NoReq == [op |-> "none"]
NoResp == [op |-> "none"]

Init ==
    /\ db \in BOOLEAN
    /\ users = <<>>
    /\ courses = <<>>
    /\ phase = "starting"
    /\ seeded = <<>>
    /\ pc = [t \in Clients |-> "idle"]
    /\ req = [t \in Clients |-> NoReq]
    /\ resp = NoResp

startup_event ==
    /\ phase = "starting"
    /\ \E fail \in FailPoints :
        LET r == seeding(db, users, courses, fail) IN
        /\ users' = r.users
        /\ courses' = r.courses
        /\ phase' = startup_outcome(r.raised)
        /\ seeded' = Append(seeded, IF r.raised THEN "failed"
                                    ELSE IF db THEN "ok" ELSE "nodb")
    /\ UNCHANGED <<db, pc, req, resp>>

\* The process is started again on the same store and configuration (a
\* deploy, a crash of the host): requests in flight are lost, documents stay.
restart ==
    /\ phase = "serving"
    /\ Len(seeded) < MaxStartups
    /\ phase' = "starting"
    /\ pc' = [t \in Clients |-> "idle"]
    /\ req' = [t \in Clients |-> NoReq]
    /\ resp' = NoResp
    /\ UNCHANGED <<db, users, courses, seeded>>

\* ------------------------------------------------------------------- auth

HTTPException(status_code, detail) ==
    [status |-> status_code, body |-> [detail |-> detail]]

\* An exception of a store call that no handler code catches: the request
\* ends with the framework's 500 response, which carries no detail object.
Unhandled ==
    [status |-> 500, body |-> [unhandled_exception |-> "store call raised"]]

\* register up to its existence check: the exception raised (by the handler,
\* or by users.find_one when `raises`), or status 0 when the handler goes on
\* to build and store the user.
register_no_check(d, us, r, raises) ==
    IF ~d THEN HTTPException(500, "Database not available")
    ELSE IF raises THEN Unhandled
    ELSE [status |-> 0]
register_check(d, us, r, raises) ==
    IF ~d THEN HTTPException(500, "Database not available")
    ELSE IF raises THEN Unhandled
    ELSE IF find_one(us, r.email) # 0 THEN HTTPException(400, "Email already registered")
    ELSE [status |-> 0]

\* User(name=..., email=..., password_hash=..., role="student", is_active=True)
register_user_plain(r) ==
    [name |-> r.name, email |-> r.email, password_hash |-> r.password,
     role |-> "student", is_active |-> TRUE]
register_user(r) ==
    [name |-> r.name, email |-> r.email, password_hash |-> hash_password(r.password),
     role |-> "student", is_active |-> TRUE]

\* create_document("user", user)
register_upsert(us, user, oid) ==
    IF find_one(us, user.email) # 0
    THEN [us EXCEPT ![find_one(us, user.email)] = [_id |-> oid] @@ user]
    ELSE create_document(us, user, oid)
register_store(us, user, oid) == create_document(us, user, oid)

\* token = hash_password(req.email + "|" + req.password); return AuthResponse(...)
register_response(r, user) ==
    [status |-> 200,
     body |-> [name |-> user.name, email |-> user.email, role |-> user.role,
               token |-> hash_password(r.email \o "|" \o r.password)]]

get(doc, key, default) == IF key \in DOMAIN doc THEN doc[key] ELSE default

login_no_db_check(d, us, r, raises) ==
    LET i == find_one(us, r.email) IN
    IF d /\ raises THEN Unhandled
    ELSE IF ~d \/ i = 0 THEN HTTPException(401, "Invalid credentials")
    ELSE IF us[i].password_hash # hash_password(r.password)
    THEN HTTPException(401, "Invalid credentials")
    ELSE [status |-> 200,
          body |-> [name |-> us[i].name, email |-> us[i].email,
                    role |-> get(us[i], "role", "student"),
                    token |-> hash_password(r.email \o "|" \o r.password)]]
login_response(d, us, r, raises) ==
    LET i == find_one(us, r.email) IN
    IF ~d THEN HTTPException(500, "Database not available")
    ELSE IF raises THEN Unhandled
    ELSE IF i = 0 THEN HTTPException(401, "Invalid credentials")
    ELSE IF us[i].password_hash # hash_password(r.password)
    THEN HTTPException(401, "Invalid credentials")
    ELSE [status |-> 200,
          body |-> [name |-> us[i].name, email |-> us[i].email,
                    role |-> get(us[i], "role", "student"),
                    token |-> hash_password(r.email \o "|" \o r.password)]]

Reply(t, op, r, out) ==
    resp' = [op |-> op, req |-> r] @@ out

\* POST /auth/register, from the request to the existence check.
register_begin(t) ==
    /\ phase = "serving"
    /\ pc[t] = "idle"
    /\ \E n \in Names, e \in Emails, p \in Passwords, raises \in BOOLEAN :
        LET r == [name |-> n, email |-> e, password |-> p]
            out == register_check(db, users, r, raises)
        IN  IF out.status # 0
            THEN /\ Reply(t, "register", r, out)
                 /\ UNCHANGED <<pc, req>>
            ELSE /\ pc' = [pc EXCEPT ![t] = "reg_insert"]
                 /\ req' = [req EXCEPT ![t] = r]
                 /\ UNCHANGED resp
    /\ UNCHANGED <<db, users, courses, phase, seeded>>

\* POST /auth/register, from the construction of the User to the response;
\* when create_document raises nothing is stored and nothing is returned.
register_finish(t) ==
    /\ phase = "serving"
    /\ pc[t] = "reg_insert"
    /\ \E raises \in BOOLEAN :
        LET user == register_user(req[t]) IN
        IF raises
        THEN /\ users' = users
             /\ Reply(t, "register", req[t], Unhandled)
        ELSE /\ users' = register_store(users, user, NewId(users, courses))
             /\ Reply(t, "register", req[t], register_response(req[t], user))
    /\ pc' = [pc EXCEPT ![t] = "idle"]
    /\ req' = [req EXCEPT ![t] = NoReq]
    /\ UNCHANGED <<db, courses, phase, seeded>>

\* POST /auth/login
login(t) ==
    /\ phase = "serving"
    /\ pc[t] = "idle"
    /\ \E e \in Emails, p \in Passwords, raises \in BOOLEAN :
        LET r == [email |-> e, password |-> p] IN
        Reply(t, "login", r, login_response(db, users, r, raises))
    /\ UNCHANGED <<db, users, courses, phase, seeded, pc, req>>

\* ---------------------------------------------------------------- courses

\* database.get_documents(collection_name): every document of the
\* collection; raises when there is no handle or the read fails.
get_documents(d, coll, read_fails) ==
    IF ~d THEN [raised |-> TRUE, error |-> "Database not available", items |-> <<>>]
    ELSE IF read_fails THEN [raised |-> TRUE, error |-> "read failed", items |-> <<>>]
    ELSE [raised |-> FALSE, error |-> "", items |-> coll]

\* if "_id" in it: it["id"] = str(it.pop("_id"))
convert_keep_id(it) ==
    IF "_id" \in DOMAIN it
    THEN [id |-> str(it["_id"])] @@ it
    ELSE it
convert(it) ==
    IF "_id" \in DOMAIN it
    THEN [id |-> str(it["_id"])] @@ [k \in (DOMAIN it) \ {"_id"} |-> it[k]]
    ELSE it

list_courses_response(d, coll, read_fails) ==
    LET got == get_documents(d, coll, read_fails) IN
    IF got.raised
    THEN [status |-> 200, body |-> [items |-> <<>>, error |-> got.error]]
    ELSE [status |-> 200,
          body |-> [items |-> [i \in 1..Len(got.items) |-> convert(got.items[i])]]]

\* GET /courses
list_courses(t) ==
    /\ phase = "serving"
    /\ pc[t] = "idle"
    /\ \E read_fails \in BOOLEAN :
        Reply(t, "list_courses", [path |-> "/courses"],
              list_courses_response(db, courses, read_fails))
    /\ UNCHANGED <<db, users, courses, phase, seeded, pc, req>>

Next ==
    \/ startup_event
    \/ restart
    \/ \E t \in Clients : register_begin(t)
    \/ \E t \in Clients : register_finish(t)
    \/ \E t \in Clients : login(t)
    \/ \E t \in Clients : list_courses(t)

Spec == Init /\ [][Next]_vars

\* ------------------------------------------------------------ properties

\* The step just taken sent a response of handler op.
Answered(op) == resp' # resp /\ resp'.op = op
HasUser(us, email) == \E i \in 1..Len(us) : us[i].email = email
\* The response r is the handler's own (every store call it made returned).
Returned(r) == r.body # Unhandled.body

\* C1: email is unique across all User records -- in every reachable state,
\* under any interleaving of concurrent Register requests and the startup
\* seeding, no two documents of the user collection carry the same email.
C1_EmailUnique ==
    \A i, j \in 1..Len(users) : users[i].email = users[j].email => i = j

\* C2: a Register that succeeded, followed immediately by a Login with the
\* same email and password, succeeds and returns the token
\* Register returned (stated for a Login whose store lookup returns, so that
\* a store outage between the two calls is not what refutes it).
C2_RegisterThenLogin ==
    [][ ( /\ resp.op = "register"
          /\ resp.status = 200
          /\ Answered("login")
          /\ Returned(resp')
          /\ resp'.req.email = resp.req.email
          /\ resp'.req.password = resp.req.password )
        => ( /\ resp'.status = 200
             /\ resp'.body.token = resp.body.token ) ]_vars

\* C3 (as stated): Register is idempotent-rejecting -- after a Register of
\* an email has succeeded its document is stored, and every Register call
\* that starts while a document with its email is stored (whatever its
\* password) answers 400 "Email already registered" in that step, goes no
\* further and persists nothing.
C3_RegisterTwiceConflict ==
    [][ /\ ( resp'.op = "register" /\ resp'.status = 200 )
           => HasUser(users', resp'.req.email)
        /\ \A t \in Clients :
            ( pc[t] = "idle" /\ pc'[t] = "reg_insert" )
            => ~HasUser(users, req'[t].email)
        /\ ( /\ Answered("register")
             /\ pc' = pc
             /\ HasUser(users, resp'.req.email) )
           => ( /\ resp'.status = 400
                /\ resp'.body = [detail |-> "Email already registered"]
                /\ users' = users
                /\ courses' = courses ) ]_vars

\* C3 (amended): after a Register of an email has succeeded its document is
\* stored; a Register call that starts while a document with its email is
\* stored never goes on to insert and persists nothing, and it answers 400
\* "Email already registered" whenever its existence lookup returns (a
\* lookup that raises is not caught: the request ends with the framework's
\* 500).
C3_RegisterTwiceConflictIfLookupReturns ==
    [][ /\ ( resp'.op = "register" /\ resp'.status = 200 )
           => HasUser(users', resp'.req.email)
        /\ \A t \in Clients :
            ( pc[t] = "idle" /\ pc'[t] = "reg_insert" )
            => ~HasUser(users, req'[t].email)
        /\ ( /\ Answered("register")
             /\ pc' = pc
             /\ HasUser(users, resp'.req.email) )
           => ( /\ users' = users
                /\ courses' = courses
                /\ resp'.status # 200
                /\ Returned(resp')
                   => ( /\ resp'.status = 400
                        /\ resp'.body = [detail |-> "Email already registered"] ) ) ]_vars

C3_Witness ==
    /\ resp.op = "register"
    /\ resp.status = 400
    /\ \E i \in 1..Len(users) :
        /\ users[i].email = resp.req.email
        /\ users[i].role = "student"
        /\ users[i].password_hash # hash_password(resp.req.password)

\* C4: Login with a wrong password never succeeds -- for every stored user
\* and every password whose fingerprint differs from that user's
\* password_hash, Login with the user's email and that password returns no
\* name, role or token, and answers 401 "Invalid credentials" whenever its
\* store lookup returns.
C4_WrongPasswordUnauthorized ==
    [][ ( /\ Answered("login")
          /\ \E i \in 1..Len(users) :
                /\ users[i].email = resp'.req.email
                /\ users[i].password_hash # hash_password(resp'.req.password) )
        => ( /\ resp'.status # 200
             /\ Returned(resp')
                => ( /\ resp'.status = 401
                     /\ resp'.body = [detail |-> "Invalid credentials"] ) ) ]_vars

\* C5: seeding is idempotent -- once the seeding routine has run to its end
\* on the fresh store, the store holds exactly one admin@elearning.com (role
\* admin), exactly one faculty@elearning.com (role faculty) and exactly the 4
\* sample courses, and every further run of the routine changes nothing.
BaselineSeeded(us, cs) ==
    /\ \A k \in 1..Len(defaults) :
        /\ Cardinality({i \in 1..Len(us) : us[i].email = defaults[k].email}) = 1
        /\ us[find_one(us, defaults[k].email)].role = defaults[k].role
    /\ Len(cs) = Len(samples)
    /\ \A k \in 1..Len(samples) : cs[k].title = samples[k].title

C5_SeedingIdempotent ==
    [][ ( seeded' # <<>> /\ seeded'[1] = "ok" )
        => ( /\ BaselineSeeded(users', courses')
             /\ ( phase = "starting" /\ seeded # <<>> )
                => ( users' = users /\ courses' = courses ) ) ]_vars

C5_Witness ==
    /\ Len(seeded) >= 2
    /\ seeded[1] = "ok"
    /\ seeded[2] = "ok"
    /\ phase = "serving"
    /\ BaselineSeeded(users, courses)

\* C6: a failure during seeding is swallowed -- whether the store handle is
\* absent or a store call of ensure_default_users or seed_samples raises,
\* the startup event completes and the service is serving requests next.
C6_SeedingFailureSwallowed ==
    [][ /\ phase = "starting" => phase' = "serving"
        /\ phase' # "crashed" ]_vars

C6_Witness ==
    /\ seeded # <<>>
    /\ seeded[Len(seeded)] = "failed"
    /\ phase = "serving"
    /\ resp.op = "register"
    /\ resp.status = 200

\* C7 (as stated): the 500 error is produced by Register only, and every
\* failing Login answers 401, also when the store is unreachable.
C7_UnavailableRegisterOnly ==
    /\ ( resp.op # "none" /\ resp.status = 500 ) => resp.op = "register"
    /\ ( resp.op = "login" /\ resp.status # 200 ) => resp.status = 401

\* C7 (amended): the 500 "Database not available" error is raised by
\* Register and by Login, exactly when the store handle is absent; with the
\* handle present a Login whose store lookup returns fails only with 401
\* "Invalid credentials", and a store call that raises inside Register or
\* Login is not caught: the request ends with the framework's 500.
C7_UnavailableRegisterAndLogin ==
    /\ ( resp.op # "none" /\ resp.status = 500 )
       => /\ resp.op \in {"register", "login"}
          /\ ~db => resp.body = [detail |-> "Database not available"]
          /\ db => ~Returned(resp)
    /\ ( ~db /\ resp.op \in {"register", "login"} )
       => ( /\ resp.status = 500
            /\ resp.body = [detail |-> "Database not available"] )
    /\ ( db /\ resp.op = "login" /\ resp.status # 200 /\ Returned(resp) )
       => ( /\ resp.status = 401
            /\ resp.body = [detail |-> "Invalid credentials"] )
    /\ ( resp.op # "none" /\ ~Returned(resp) )
       => ( db /\ resp.status = 500 /\ resp.op \in {"register", "login"} )

C7_Witness ==
    /\ ~db
    /\ resp.op = "login"
    /\ resp.status = 500

\* C8: a successful Register(name, email, password) persists exactly one new
\* User document with that name and email, password_hash = Hasher(password),
\* role student and is_active true, changes no other document, and returns
\* {name, email, role: student, token = Hasher(email + "|" + password)}; a
\* Register that does not succeed persists nothing.
C8_RegisterSuccess ==
    [][ /\ ( Answered("register") /\ resp'.status = 200 )
           => \E t \in Clients : pc[t] = "reg_insert" /\ pc'[t] = "idle"
        /\ \A t \in Clients :
            ( pc[t] = "reg_insert" /\ pc'[t] = "idle" /\ phase' = "serving" )
            => ( resp'.status # 200 /\ users' = users /\ courses' = courses )
               \/
               LET new == users'[Len(users')] IN
               /\ Len(users') = Len(users) + 1
               /\ \A i \in 1..Len(users) : users'[i] = users[i]
               /\ courses' = courses
               /\ new.name = req[t].name
               /\ new.email = req[t].email
               /\ new.password_hash = hash_password(req[t].password)
               /\ new.role = "student"
               /\ new.is_active = TRUE
               /\ resp'.op = "register"
               /\ resp'.status = 200
               /\ resp'.body =
                    [name |-> req[t].name, email |-> req[t].email, role |-> "student",
                     token |-> hash_password(req[t].email \o "|" \o req[t].password)] ]_vars

C8_Witness ==
    /\ resp.op = "register"
    /\ resp.status = 200
    /\ resp.body.role = "student"
    /\ users[Len(users)].email = resp.req.email
    /\ Len(users) = Len(defaults) + 1

\* C9: course listing is best-effort -- List always answers in the success
\* shape; a failed store access (no handle, or the read raising) gives an
\* empty items sequence plus an error description; a read that succeeded
\* gives every course document with an id (the string of its _id) and no
\* field named _id.
C9_ListBestEffort ==
    resp.op = "list_courses"
    => /\ resp.status = 200
       /\ "items" \in DOMAIN resp.body
       /\ ~db => "error" \in DOMAIN resp.body
       /\ "error" \in DOMAIN resp.body => resp.body.items = <<>>
       /\ "error" \notin DOMAIN resp.body
          => /\ Len(resp.body.items) = Len(courses)
             /\ \A i \in 1..Len(courses) :
                 /\ "id" \in DOMAIN resp.body.items[i]
                 /\ "_id" \notin DOMAIN resp.body.items[i]
                 /\ resp.body.items[i].id = str(courses[i]["_id"])
                 /\ resp.body.items[i].title = courses[i].title

C9_Witness ==
    /\ resp.op = "list_courses"
    /\ db
    /\ Len(courses) = Len(samples)
    /\ "error" \in DOMAIN resp.body
    /\ resp.body.items = <<>>

\* C10: User records are never updated or deleted -- every step keeps every
\* stored user document as it is, and a Login (successful or failed), a List
\* and a failed Register leave the user and course collections unchanged.
C10_UsersAppendOnly ==
    [][ /\ Len(users') >= Len(users)
        /\ \A i \in 1..Len(users) : users'[i] = users[i]
        /\ ( \/ Answered("login")
             \/ Answered("list_courses")
             \/ ( Answered("register") /\ resp'.status # 200 ) )
           => ( users' = users /\ courses' = courses ) ]_vars

C10_Witness ==
    /\ resp.op = "login"
    /\ resp.status = 401
    /\ \E i, j \in 1..Len(users) :
        /\ i # j
        /\ users[i].email = users[j].email
        /\ users[i].email = resp.req.email
====
